---- MODULE Spec2Model ----
(***************************************************************************)
(* Model of link-conditioner's UdpConditioner (src/src/lib.rs): a thin     *)
(* wrapper around a UdpSocket that, in Conditioned mode, routes every      *)
(* inbound datagram through a TimeQueue<RecvFrom> guarded by a Mutex.      *)
(*                                                                         *)
(* The TimeQueue of module time_queue (lib.rs:9-11) is modelled from the   *)
(* specification's Delay Queue contract: add_item inserts, has_item and    *)
(* pop_item look at the entry with the smallest release instant (first     *)
(* inserted on ties) and release it only once that instant has passed.     *)
(*                                                                         *)
(* A receive call is two steps per caller: Call (entry and try_lock), then *)
(* Recv (Conditioned: everything done under the lock) or RawRead (Raw).    *)
(* Queue entries and results carry history fields (id, t0, received)       *)
(* that the program does not store; they only serve the properties.        *)
(***************************************************************************)
EXTENDS Integers, Sequences, FiniteSets, TLC

\* ---- bounds of the model ----
MaxTime == 1
MaxArrivals == 2
MaxSends == 1

\* ---- inputs ----
Threads == {"t1", "t2"}
Ops == {"recv", "recv_from"}
\* sender addresses, in the order SocketAddr's Ord gives them
Addrs == {1, 2}
\* datagram lengths and caller buffer capacities, in bytes
Lens == {1, 2}
Caps == {1, 2}
\* the capacity of the buffer handed to peek_from: the largest one
MaxCap == CHOOSE c \in Caps : \A d \in Caps : d <= c
\* the configurations a socket is bound with (latency and jitter in clock
\* ticks, packet_loss 0.0 or 1.0): the default, latency alone, jitter alone,
\* and total loss
Configs ==
    {[latency |-> 0, jitter |-> 0, packet_loss |-> 0],
     [latency |-> 1, jitter |-> 0, packet_loss |-> 0],
     [latency |-> 0, jitter |-> 1, packet_loss |-> 0],
     [latency |-> 0, jitter |-> 0, packet_loss |-> 1]}

None == "none"
NoAddr == 0

VARIABLES
    mode,         \* "Conditioned" or "Raw": the variant of the enum
    config,       \* the ConditionerConfig of a Conditioned socket
    nonblocking,  \* the socket's non-blocking flag
    now,          \* the clock behind Instant::now()
    inbox,        \* datagrams pending in the socket's receive buffer
    arrivals,     \* number of datagrams that reached the socket
    queue,        \* the TimeQueue<RecvFrom>, in insertion order
    lock,         \* holder of the queue's Mutex, or None
    pc,           \* where each caller is: "idle", "read" (holding the lock,
                  \* about to read the socket), "raw" (about to read, Raw mode)
    ret,          \* the outcome of the latest call, once it has returned
    dlv,          \* the last queue entry delivered to a caller
    out,          \* ids of the delivered datagrams, in delivery order
    sent          \* number of datagrams handed to the socket by send / send_to

vars == <<mode, config, nonblocking, now, inbox, arrivals, queue, lock,
          pc, ret, dlv, out, sent>>

\* ---- pure helpers ----
Min(a, b) == IF a < b THEN a ELSE b

\* the payload of the k-th datagram to arrive: every byte names its datagram
\* and its position
Payload(k, len) == [i \in 1..len |-> 10 * k + i]

\* a caller buffer of capacity c before the call: bytes 0 never occur in a payload
FreshBuf(c) == [i \in 1..c |-> 0]

\* ConditionerConfig::default
DefaultConfig == [latency |-> 0, jitter |-> 0, packet_loss |-> 0]

\* UdpSocket::recv_from(buf) on a pending datagram dg: the datagram is cut to
\* the buffer, the bytes beyond the received length keep their old content
SocketRecvFrom(dg, b) ==
    [received |-> Min(Len(dg.data), Len(b)),
     addr     |-> dg.addr,
     buf      |-> [i \in 1..Len(b) |-> IF i <= Len(dg.data) THEN dg.data[i] ELSE b[i]]]

\* variants of ReleaseInstant: the latency left out, the latency added twice
ReleaseInstantLate(n, cfg) == n + cfg.latency + 1
ReleaseInstantNoLatency(n, cfg) == n

ReleaseInstantTwice(n, cfg) == n + cfg.latency + cfg.latency

\* Instant::now().add(config.latency)
ReleaseInstant(n, cfg) == n + cfg.latency

\* the bytes stored with the queued RecvFrom: buf.to_vec(), the whole buffer
StoredData(b, received) == b

\* the read path inserts every datagram it reads: packet_loss is never consulted
ShouldKeep(cfg) == TRUE

\* ---- TimeQueue (modelled from the specification) ----
\* add_item: unconditional insert; the sequence keeps insertion order
add_item(q, entry) == Append(q, entry)

\* variant of EarliestIndex: ties decided by the derived Ord of RecvFrom
\* (address first), the insertion order last
EarliestByValue(q) ==
    CHOOSE i \in 1..Len(q) :
        \A j \in 1..Len(q) :
            \/ q[i].instant < q[j].instant
            \/ /\ q[i].instant = q[j].instant
               /\ \/ q[i].item.addr < q[j].item.addr
                  \/ (q[i].item.addr = q[j].item.addr /\ i <= j)

\* index of the entry with the smallest release instant, first inserted on ties
EarliestIndex(q) ==
    CHOOSE i \in 1..Len(q) :
        \A j \in 1..Len(q) :
            \/ q[i].instant < q[j].instant
            \/ (q[i].instant = q[j].instant /\ i <= j)

\* has_item: the earliest entry exists and its release instant has passed
has_item(q, n) == q # <<>> /\ q[EarliestIndex(q)].instant <= n

RemoveAt(q, i) == [j \in 1..(Len(q) - 1) |-> IF j < i THEN q[j] ELSE q[j + 1]]

\* pop_item: the queue after removing its earliest entry
pop_rest(q) == RemoveAt(q, EarliestIndex(q))

\* ---- delivery into the caller's buffer ----
\* for (index, byte) in item.data: if buf.len() > index { buf[index] = byte }
CopyOut(data, b) == [i \in 1..Len(b) |-> IF i <= Len(data) THEN data[i] ELSE b[i]]

\* variant of ReportedLen: the early return on a full buffer left out
ReportedLenUntruncated(data, b) == Len(data)

\* return Ok(buf.len()) once the buffer is full, Ok(item.data.len()) otherwise
ReportedLen(data, b) == IF Len(data) > Len(b) THEN Len(b) ELSE Len(data)

\* ---- results of a call ----
\* what a call returned: kind "ok" or "wouldblock" (recv, recv_from),
\* "peeked" or "peekerr" (peek_from); len, addr, buf what the
\* caller sees (the capacity of its buffer is Len(buf)); why the path that led
\* to Err(WouldBlock): "lock" (try_lock failed), "read" (recv: the transport
\* read failed), "queue" (nothing to pop), "socket" (Raw: the socket's own
\* error); rdlen what the call's own transport read returned (-1: it failed);
\* for a delivery, rdid the datagram that read found and id the one delivered
NoRet ==
    [kind |-> None, why |-> None, len |-> 0, addr |-> NoAddr, buf |-> <<>>,
     rdlen |-> -1, rdid |-> 0, id |-> 0]

\* variant of WouldBlock: a failed transport read is handed to the caller as
\* an error of its own (socket.recv_from(buf)? in place of if let Ok)
WouldBlockPropagates(why) ==
    [NoRet EXCEPT !.kind = IF why = "read" THEN "err" ELSE "wouldblock",
                  !.why = why]

\* Err(io::ErrorKind::WouldBlock.into()), the only error a Conditioned call
\* builds
WouldBlock(why) == [NoRet EXCEPT !.kind = "wouldblock", !.why = why]

\* variant of ReturnedAddr: the address of the datagram the call has just read
ReturnedAddrOfRead(o, item, rdaddr) ==
    IF o = "recv_from" THEN (IF rdaddr # NoAddr THEN rdaddr ELSE item.addr)
                       ELSE NoAddr

\* the address a call hands back: recv_from returns the popped item's stored
\* address, recv returns none
ReturnedAddr(o, item, rdaddr) == IF o = "recv_from" THEN item.addr ELSE NoAddr

\* the queue entry behind a delivery: release instant, insertion time t0,
\* length the transport read returned, stored bytes and address
NoDlv ==
    [id |-> 0, instant |-> 0, t0 |-> 0, received |-> 0, data |-> <<>>,
     addr |-> NoAddr]

\* bind (Raw, no configuration) or bind_conditioned (any configuration, an
\* empty queue); UdpSocket::bind yields a blocking socket
Init ==
    /\ mode \in {"Conditioned", "Raw"}
    /\ config \in Configs
    /\ (mode = "Raw" => config = DefaultConfig)
    /\ nonblocking = FALSE
    /\ now = 0
    /\ inbox = <<>>
    /\ arrivals = 0
    /\ queue = <<>>
    /\ lock = None
    /\ pc = [t \in Threads |-> "idle"]
    /\ ret = NoRet
    /\ dlv = NoDlv
    /\ out = <<>>
    /\ sent = 0

\* ---- environment ----
\* the clock advances
Tick ==
    /\ now < MaxTime
    /\ now' = now + 1
    /\ UNCHANGED <<mode, config, nonblocking, inbox, arrivals, queue, lock,
                   pc, ret, dlv, out, sent>>

\* a datagram from a peer reaches the socket's receive buffer
Arrive ==
    /\ arrivals < MaxArrivals
    /\ \E a \in Addrs, len \in Lens :
          inbox' = Append(inbox, [id |-> arrivals + 1, addr |-> a,
                                  data |-> Payload(arrivals + 1, len)])
    /\ arrivals' = arrivals + 1
    /\ UNCHANGED <<mode, config, nonblocking, now, queue, lock,
                   pc, ret, dlv, out, sent>>

\* set_nonblocking: forwarded to the socket
SetNonblocking ==
    /\ \E b \in BOOLEAN : nonblocking' = b /\ b # nonblocking
    /\ UNCHANGED <<mode, config, now, inbox, arrivals, queue, lock,
                   pc, ret, dlv, out, sent>>

\* variant of Send: the send goes through the queue lock
SendLocked(t) ==
    /\ sent < MaxSends
    /\ pc[t] = "idle"
    /\ lock = None
    /\ sent' = sent + 1
    /\ UNCHANGED <<mode, config, nonblocking, now, inbox, arrivals, queue, lock,
                   pc, ret, dlv, out>>

\* send / send_to: forwarded to the socket, whoever holds the queue lock
Send(t) ==
    /\ sent < MaxSends
    /\ pc[t] = "idle"
    /\ sent' = sent + 1
    /\ UNCHANGED <<mode, config, nonblocking, now, inbox, arrivals, queue, lock,
                   pc, ret, dlv, out>>

\* variant of Call: queue.lock() in place of try_lock(), the caller waits
CallBlocking(t) ==
    /\ pc[t] = "idle"
    /\ IF mode = "Conditioned" /\ lock # None
       THEN /\ pc' = [pc EXCEPT ![t] = "lockwait"]
            /\ UNCHANGED <<ret, lock>>
       ELSE /\ pc' = [pc EXCEPT ![t] = IF mode = "Raw" THEN "raw" ELSE "read"]
            /\ lock' = IF mode = "Raw" THEN lock ELSE t
            /\ ret' = NoRet
    /\ UNCHANGED <<mode, config, nonblocking, now, inbox, arrivals, queue,
                   dlv, out, sent>>

\* variant of Call: the lock is taken without looking at its holder
CallUnguarded(t) ==
    /\ pc[t] = "idle"
    /\ pc' = [pc EXCEPT ![t] = IF mode = "Raw" THEN "raw" ELSE "read"]
    /\ lock' = IF mode = "Raw" THEN lock ELSE t
    /\ ret' = NoRet
    /\ UNCHANGED <<mode, config, nonblocking, now, inbox, arrivals, queue,
                   dlv, out, sent>>

\* ---- recv / recv_from ----
\* a caller enters recv or recv_from.  Raw: the call goes to the socket.
\* Conditioned: queue.try_lock() is taken when the lock is free, otherwise the
\* call falls through to Err(WouldBlock).  A call that goes on has no outcome
\* yet: ret is cleared until it returns.
Call(t) ==
    /\ pc[t] = "idle"
    /\ IF mode = "Conditioned" /\ lock # None
       THEN /\ ret' = WouldBlock("lock")
            /\ UNCHANGED <<pc, lock>>
       ELSE /\ pc' = [pc EXCEPT ![t] = IF mode = "Raw" THEN "raw" ELSE "read"]
            /\ lock' = IF mode = "Raw" THEN lock ELSE t
            /\ ret' = NoRet
    /\ UNCHANGED <<mode, config, nonblocking, now, inbox, arrivals, queue,
                   dlv, out, sent>>

\* the body of recv / recv_from under the lock: socket.recv_from(buf), add_item
\* on success, then the queue check, the copy into the caller's buffer and the
\* return, which drops the guard.  On a blocking socket the read waits for a
\* datagram.  In recv the queue check is inside the Ok branch of the read: a
\* failed read returns Err(WouldBlock) directly.  The operation o and the
\* buffer (capacity c) are the call's arguments; nothing reads them before
\* this step.
RecvBody(t, o, c) ==
    LET got == inbox # <<>>
        dg  == Head(inbox)
        r   == IF got THEN SocketRecvFrom(dg, FreshBuf(c))
                      ELSE [received |-> -1, addr |-> NoAddr, buf |-> FreshBuf(c)]
        q1  == IF got /\ ShouldKeep(config)
               THEN add_item(queue,
                      [instant  |-> ReleaseInstant(now, config),
                       item     |-> [addr |-> r.addr,
                                     data |-> StoredData(r.buf, r.received)],
                       id       |-> dg.id,
                       t0       |-> now,
                       received |-> r.received])
               ELSE queue
        check == got \/ o = "recv_from"
    IN  /\ inbox' = IF got THEN Tail(inbox) ELSE inbox
        /\ IF check /\ has_item(q1, now)
           THEN LET e == q1[EarliestIndex(q1)]
                IN  /\ queue' = pop_rest(q1)
                    /\ ret' = [kind |-> "ok", why |-> None,
                               len |-> ReportedLen(e.item.data, r.buf),
                               addr |-> ReturnedAddr(o, e.item, r.addr),
                               buf |-> CopyOut(e.item.data, r.buf),
                               rdlen |-> r.received,
                               rdid |-> IF got THEN dg.id ELSE 0,
                               id |-> e.id]
                    /\ dlv' = [id |-> e.id, instant |-> e.instant, t0 |-> e.t0,
                               received |-> e.received, data |-> e.item.data,
                               addr |-> e.item.addr]
                    /\ out' = Append(out, e.id)
           ELSE /\ queue' = q1
                /\ ret' = [WouldBlock(IF check THEN "queue" ELSE "read")
                              EXCEPT !.rdlen = r.received]
                /\ UNCHANGED <<dlv, out>>

Recv(t) ==
    /\ pc[t] = "read"
    /\ inbox # <<>> \/ nonblocking
    /\ \E o \in Ops, c \in Caps : RecvBody(t, o, c)
    /\ lock' = None
    /\ pc' = [pc EXCEPT ![t] = "idle"]
    /\ UNCHANGED <<mode, config, nonblocking, now, arrivals, sent>>

\* variant of RawRead: the length reported is the buffer's, as on the
\* Conditioned path
RawReadWholeBuffer(t) ==
    /\ pc[t] = "raw"
    /\ inbox # <<>> \/ nonblocking
    /\ \E o \in Ops, c \in Caps :
          IF inbox # <<>>
          THEN LET dg == Head(inbox)
                   r  == SocketRecvFrom(dg, FreshBuf(c))
               IN  /\ inbox' = Tail(inbox)
                   /\ ret' = [kind |-> "ok", why |-> None, len |-> Len(r.buf),
                              addr |-> IF o = "recv_from" THEN r.addr ELSE NoAddr,
                              buf |-> r.buf, rdlen |-> r.received,
                              rdid |-> dg.id, id |-> dg.id]
                   /\ out' = Append(out, dg.id)
          ELSE /\ ret' = WouldBlock("socket")
               /\ UNCHANGED <<inbox, out>>
    /\ pc' = [pc EXCEPT ![t] = "idle"]
    /\ UNCHANGED <<mode, config, nonblocking, now, arrivals, queue, lock,
                   dlv, sent>>

\* Raw arm: socket.recv(buf) / socket.recv_from(buf), the transport's own result
RawRead(t) ==
    /\ pc[t] = "raw"
    /\ inbox # <<>> \/ nonblocking
    /\ \E o \in Ops, c \in Caps :
          IF inbox # <<>>
          THEN LET dg == Head(inbox)
                   r  == SocketRecvFrom(dg, FreshBuf(c))
               IN  /\ inbox' = Tail(inbox)
                   /\ ret' = [kind |-> "ok", why |-> None, len |-> r.received,
                              addr |-> IF o = "recv_from" THEN r.addr ELSE NoAddr,
                              buf |-> r.buf, rdlen |-> r.received,
                              rdid |-> dg.id, id |-> dg.id]
                   /\ out' = Append(out, dg.id)
          ELSE /\ ret' = WouldBlock("socket")
               /\ UNCHANGED <<inbox, out>>
    /\ pc' = [pc EXCEPT ![t] = "idle"]
    /\ UNCHANGED <<mode, config, nonblocking, now, arrivals, queue, lock,
                   dlv, sent>>

\* variant of Peek: the datagram is taken off the socket (recv_from in place of
\* peek_from)
PeekConsuming ==
    /\ {t \in Threads : pc[t] = "idle"} # {}
    /\ inbox # <<>> \/ nonblocking
    /\ LET c == MaxCap IN
          IF inbox # <<>>
          THEN LET dg == Head(inbox)
                   r  == SocketRecvFrom(dg, FreshBuf(c))
               IN  /\ ret' = [kind |-> "peeked", why |-> None, len |-> r.received,
                              addr |-> r.addr, buf |-> r.buf, rdlen |-> r.received,
                              rdid |-> dg.id, id |-> dg.id]
                   /\ inbox' = Tail(inbox)
          ELSE /\ ret' = [NoRet EXCEPT !.kind = "peekerr", !.why = "socket"]
               /\ UNCHANGED inbox
    /\ UNCHANGED <<mode, config, nonblocking, now, arrivals, queue, lock,
                   pc, dlv, out, sent>>

\* peek_from, both arms: socket.peek_from(buf), the socket's own result; the
\* datagram stays pending.  On a blocking socket the peek waits for a datagram.
\* The caller's buffer holds any datagram (capacity MaxCap).
\* The caller is any thread that is not inside a receive call.
Peek ==
    /\ {t \in Threads : pc[t] = "idle"} # {}
    /\ inbox # <<>> \/ nonblocking
    /\ LET c == MaxCap IN
          IF inbox # <<>>
          THEN LET dg == Head(inbox)
                   r  == SocketRecvFrom(dg, FreshBuf(c))
               IN  ret' = [kind |-> "peeked", why |-> None, len |-> r.received,
                           addr |-> r.addr, buf |-> r.buf, rdlen |-> r.received,
                           rdid |-> dg.id, id |-> dg.id]
          ELSE ret' = [NoRet EXCEPT !.kind = "peekerr", !.why = "socket"]
    /\ UNCHANGED <<mode, config, nonblocking, now, inbox, arrivals, queue, lock,
                   pc, dlv, out, sent>>

Next ==
    \/ Tick
    \/ Arrive
    \/ SetNonblocking
    \/ \E t \in Threads : Send(t)
    \/ \E t \in Threads : Call(t)
    \/ \E t \in Threads : Recv(t)
    \/ \E t \in Threads : RawRead(t)
    \/ Peek

Spec == Init /\ [][Next]_vars

\* the same program with callers that keep calling: time passes, a caller that
\* can enter recv / recv_from does, and a call whose transport read can
\* complete returns
LiveSpec ==
    /\ Init
    /\ [][Next]_vars
    /\ WF_vars(Tick)
    /\ \A t \in Threads : WF_vars(Call(t)) /\ WF_vars(Recv(t))

\* ---- properties ----
Delivered == mode = "Conditioned" /\ ret.kind = "ok"

\* a step in which a Conditioned call returns a packet
Delivery == mode = "Conditioned" /\ out' # out

\* the buffer a Raw read of datagram k (received bytes n) into a fresh buffer
\* of capacity c leaves behind
RawBuf(k, n, c) == [i \in 1..c |-> IF i <= n THEN 10 * k + i ELSE 0]

\* a step in which a Conditioned call that held the lock returns
LockedReturn == \E t \in Threads : pc[t] = "read" /\ pc'[t] = "idle"

\* C1 as stated: a Conditioned call returns a packet only at a time
\* >= t0 + latency, t0 being the time the packet was read from the transport;
\* with latency > 0 the call that reads a packet returns would-block.
C1_AsStated ==
    [][/\ Delivery => now >= dlv'.t0 + config.latency
       /\ (LockedReturn /\ config.latency > 0 /\ ret'.rdlen >= 0)
             => ret'.kind = "wouldblock"]_vars

\* C1 (amended): a Conditioned call returns a packet only at a time
\* >= t0 + latency, t0 being the time the packet was read from the transport;
\* with latency > 0 the call that reads a packet never returns that packet
\* (it returns would-block, or an older packet whose release instant passed).
C1_NoEarlyRelease ==
    [][Delivery =>
          /\ now >= dlv'.t0 + config.latency
          /\ (config.latency > 0 => ret'.rdid # dlv'.id)]_vars

\* latency > 0: a call read one packet and returned an older one, whose
\* release instant had passed
C1_Witness ==
    /\ Delivered
    /\ config.latency > 0
    /\ ret.rdid # 0
    /\ ret.rdid # ret.id
    /\ now >= dlv.t0 + config.latency

\* C2: with packet_loss = 1 nothing is ever inserted into the queue or
\* returned; with packet_loss = 0 every packet read from the transport has
\* been inserted (it is in the queue or was delivered from it).
C2_LossApplied ==
    mode = "Conditioned" =>
        /\ (config.packet_loss = 1 => queue = <<>> /\ out = <<>>)
        /\ (config.packet_loss = 0 =>
               (1..arrivals) \ {inbox[i].id : i \in 1..Len(inbox)}
                  = {queue[i].id : i \in 1..Len(queue)}
                       \cup {out[i] : i \in 1..Len(out)})

\* C3: a packet of received length L delivered into a buffer of capacity
\* C >= L is reported with length exactly L, and the first L bytes of the
\* buffer are the packet's bytes.
C3_ExactLength ==
    (Delivered /\ Len(ret.buf) >= dlv.received) =>
        /\ ret.len = dlv.received
        /\ SubSeq(ret.buf, 1, dlv.received) = Payload(dlv.id, dlv.received)

\* C4: a stored payload of length L delivered into a buffer of capacity
\* C < L: the buffer holds exactly the leading C bytes of the payload, its
\* capacity is unchanged, and the reported length is C.
C4_Truncation ==
    (Delivered /\ Len(dlv.data) > Len(ret.buf)) =>
        /\ ret.len = Len(ret.buf)
        /\ ret.buf = SubSeq(dlv.data, 1, Len(ret.buf))

C4_Witness ==
    /\ Delivered
    /\ Len(dlv.data) > Len(ret.buf)
    /\ ret.len = Len(ret.buf)

\* C5: with the default configuration every Conditioned call that got the
\* lock returns what a Raw read of the same socket would return: the datagram
\* its own transport read found, with that read's length, bytes and address,
\* and would-block only when that read failed.
C5_RawEquivalence ==
    (mode = "Conditioned" /\ config = DefaultConfig) =>
        /\ Delivered =>
              /\ ret.id = ret.rdid
              /\ ret.len = ret.rdlen
              /\ ret.buf = RawBuf(ret.rdid, ret.rdlen, Len(ret.buf))
              /\ ret.addr \in {NoAddr, dlv.addr}
        /\ (ret.kind = "wouldblock" /\ ret.why # "lock") => ret.rdlen = -1

\* C6: a Conditioned call made while the lock is held returns would-block in
\* the same step: the caller never waits (it stays idle), and nothing but the
\* result changes.  (A peek_from is not a receive call.)
C6_NoWaitOnLock ==
    [][(mode = "Conditioned" /\ lock # None) =>
          \A t \in Threads :
             pc[t] = "idle" =>
                /\ pc'[t] = "idle"
                /\ (ret' # ret /\ lock' = lock
                            /\ ret'.kind \notin {"peeked", "peekerr"}) =>
                      /\ ret'.kind = "wouldblock"
                      /\ ret'.why = "lock"
                      /\ queue' = queue
                      /\ inbox' = inbox
                      /\ pc' = pc]_vars

\* a caller was turned away while another holds the lock
C6_Witness ==
    /\ mode = "Conditioned"
    /\ lock # None
    /\ ret.kind = "wouldblock"
    /\ ret.why = "lock"
    /\ \E t \in Threads : pc[t] = "idle"

\* C7: a Conditioned call that holds the lock can always complete: its
\* transport read never waits, whatever the socket's blocking mode and whether
\* or not a datagram is pending.
C7_NeverBlocks ==
    \A t \in Threads : pc[t] = "read" => ENABLED Recv(t)

\* C8: successive deliveries come out in non-decreasing order of release
\* instant, and in insertion order on equal instants (datagrams are inserted
\* in the order of their ids).
C8_Order ==
    [][(Delivery /\ dlv.id # 0) =>
          \/ dlv'.instant > dlv.instant
          \/ (dlv'.instant = dlv.instant /\ dlv'.id > dlv.id)]_vars

\* the first of two queued packets with equal release instants was delivered
\* first although its address is the greater one
C8_Witness ==
    /\ Delivered
    /\ queue # <<>>
    /\ queue[1].instant = dlv.instant
    /\ queue[1].id > dlv.id
    /\ queue[1].item.addr < dlv.addr

\* C9: every inserted packet's release instant r satisfies
\* |r - (t0 + latency)| <= jitter, t0 being the time it was read; with
\* jitter = 0, r = t0 + latency.  (Queued entries and the delivered one.)
InJitterBound(r, t0) ==
    /\ r - (t0 + config.latency) <= config.jitter
    /\ (t0 + config.latency) - r <= config.jitter
    /\ (config.jitter = 0 => r = t0 + config.latency)

C9_JitterBound ==
    mode = "Conditioned" =>
        /\ \A i \in 1..Len(queue) : InJitterBound(queue[i].instant, queue[i].t0)
        /\ (dlv.id # 0 => InJitterBound(dlv.instant, dlv.t0))

C9_Witness ==
    /\ mode = "Conditioned"
    /\ config.latency > 0
    /\ queue # <<>>
    /\ queue[1].instant = queue[1].t0 + config.latency

\* C10: a send, in either mode, only hands a datagram to the socket: the
\* queue, its lock and the receive side are unchanged; and a send is possible
\* whoever holds the lock (it is never delayed or dropped).
C10_SendPassThrough ==
    /\ [][sent' # sent =>
             /\ sent' = sent + 1
             /\ queue' = queue
             /\ lock' = lock
             /\ inbox' = inbox
             /\ ret' = ret
             /\ out' = out]_vars
    /\ [](\A t \in Threads : (pc[t] = "idle" /\ sent < MaxSends) => ENABLED Send(t))

\* a datagram was sent while a receiver holds the lock of a non-empty queue
C10_Witness ==
    /\ sent > 0
    /\ lock # None
    /\ queue # <<>>

\* C11: the mode never changes; in Raw mode the queue stays empty and the lock
\* free, and a recv / recv_from returns what the socket returns at that very
\* step: the pending datagram (its length, bytes and, for recv_from, address),
\* taken off the socket, or the socket's error when none is pending.
C11_RawPassThrough ==
    [][/\ mode' = mode
       /\ mode = "Raw" =>
             /\ queue = <<>> /\ queue' = queue
             /\ lock = None /\ lock' = lock
             /\ dlv' = dlv
             /\ \A t \in Threads :
                   (pc[t] = "raw" /\ pc'[t] = "idle") =>
                      IF inbox # <<>>
                      THEN LET dg == Head(inbox)
                               n  == Min(Len(dg.data), Len(ret'.buf))
                           IN  /\ ret'.kind = "ok"
                               /\ ret'.id = dg.id
                               /\ ret'.len = n
                               /\ ret'.buf = RawBuf(dg.id, n, Len(ret'.buf))
                               /\ ret'.addr \in {NoAddr, dg.addr}
                               /\ inbox' = Tail(inbox)
                      ELSE /\ ret' = WouldBlock("socket")
                           /\ inbox' = inbox]_vars

\* a Raw read returned a datagram shorter than the caller's buffer
C11_Witness ==
    /\ mode = "Raw"
    /\ ret.kind = "ok"
    /\ ret.len < Len(ret.buf)
    /\ out # <<>>

\* C12: a Conditioned call (recv or recv_from) whose transport read fails
\* still checks the queue: when the queue holds an item that is due, the call
\* pops the earliest one and returns it.
C12_QueueCheckedAfterFailedRead ==
    [][(mode = "Conditioned" /\ LockedReturn /\ inbox = <<>>
          /\ has_item(queue, now)) =>
             /\ ret'.kind = "ok"
             /\ ret'.id = queue[EarliestIndex(queue)].id
             /\ queue' = pop_rest(queue)]_vars

\* ids held by a sequence of queue entries / the ids of a sequence of ids
QueuedIds(q) == {q[i].id : i \in 1..Len(q)}
OutIds(o) == {o[i] : i \in 1..Len(o)}

\* C13: every entry that enters the queue is the datagram just read from the
\* socket, with its address; every packet a Conditioned call returns was in
\* the queue or is the datagram this call read, had not been returned before,
\* leaves the queue, and (recv_from) comes with the address it arrived from.
C13_NoDuplicationNoSynthesis ==
    [][mode = "Conditioned" =>
          /\ \A i \in 1..Len(queue') :
                \/ \E j \in 1..Len(queue) : queue[j] = queue'[i]
                \/ /\ inbox # <<>>
                   /\ queue'[i].id = Head(inbox).id
                   /\ queue'[i].item.addr = Head(inbox).addr
                   /\ inbox' = Tail(inbox)
          /\ Delivery =>
                LET k == ret'.id
                IN  /\ out' = Append(out, k)
                    /\ k \notin OutIds(out)
                    /\ k \notin QueuedIds(queue')
                    /\ \/ \E j \in 1..Len(queue) :
                             /\ queue[j].id = k
                             /\ ret'.addr \in {NoAddr, queue[j].item.addr}
                             /\ ret'.buf = CopyOut(queue[j].item.data, ret'.buf)
                       \/ /\ inbox # <<>>
                          /\ Head(inbox).id = k
                          /\ ret'.addr \in {NoAddr, Head(inbox).addr}
                          /\ inbox' = Tail(inbox)]_vars

\* a recv_from read one datagram and returned an older one, with the older
\* one's address; both datagrams have since been returned
C13_Witness ==
    /\ mode = "Conditioned"
    /\ Len(out) = 2
    /\ out[1] # out[2]
    /\ ret.kind = "ok"
    /\ ret.rdid # ret.id
    /\ ret.addr = dlv.addr

\* C14: on a socket that stays non-blocking, with callers that keep calling
\* and from some point on are never turned away by a held lock, every queued
\* packet whose release instant has passed is eventually returned.
C14_EventuallyReturned ==
    (<>[](nonblocking /\ ret.why # "lock")) =>
        \A k \in 1..MaxArrivals :
            (mode = "Conditioned"
               /\ \E i \in 1..Len(queue) : queue[i].id = k /\ queue[i].instant <= now)
            ~> (k \in OutIds(out))

\* C15: a Conditioned recv / recv_from returns a packet or would-block and
\* nothing else: would-block at once when the lock is held, would-block when
\* the queue has nothing due after the read step, and no other error when the
\* transport read fails.
C15_TwoOutcomes ==
    [][mode = "Conditioned" =>
          /\ (lock # None /\ lock' = lock /\ ret' # ret
                 /\ ret'.kind \notin {"peeked", "peekerr"}) =>
                ret' = WouldBlock("lock")
          /\ LockedReturn =>
                /\ ret'.kind \in {"ok", "wouldblock"}
                /\ (~has_item(queue, now)
                      /\ (inbox = <<>> \/ ReleaseInstant(now, config) > now)) =>
                      ret'.kind = "wouldblock"
                /\ inbox = <<>> => ret'.rdlen = -1]_vars

\* a recv whose transport read failed returned would-block
C15_Witness ==
    /\ mode = "Conditioned"
    /\ ret.kind = "wouldblock"
    /\ ret.why = "read"
    /\ ret.rdlen = -1

\* C16 as stated: in Conditioned mode the queue is empty whenever no call
\* holds the lock, whatever the latency.
C16_AsStated ==
    (mode = "Conditioned" /\ lock = None) => queue = <<>>

\* C16: in Conditioned mode with latency 0 the queue is empty whenever no
\* call holds the lock.
C16_EmptyBetweenCalls ==
    (mode = "Conditioned" /\ config.latency = 0 /\ lock = None) => queue = <<>>

\* with latency 0 a call inserted a packet and popped it before returning
C16_Witness ==
    /\ mode = "Conditioned"
    /\ config.latency = 0
    /\ lock = None
    /\ ret.kind = "ok"
    /\ ret.rdid = ret.id
    /\ queue = <<>>

\* C17: at most one caller is between taking the lock and returning, the lock
\* is held exactly while one is, and every return of a call that held the
\* lock, the truncating one included, leaves it free.
C17_OneCallerUnderLock ==
    /\ [](mode = "Conditioned" =>
             /\ Cardinality({t \in Threads : pc[t] = "read"}) <= 1
             /\ (lock = None <=> \A t \in Threads : pc[t] # "read")
             /\ (lock # None => pc[lock] = "read"))
    /\ [][(mode = "Conditioned" /\ LockedReturn) =>
             /\ lock' = None
             /\ \A t \in Threads : pc'[t] = "idle"]_vars

\* a truncating call has returned and left the lock free
C17_Witness ==
    /\ Delivered
    /\ Len(dlv.data) > Len(ret.buf)
    /\ ret.len = Len(ret.buf)
    /\ lock = None
    /\ \A t \in Threads : pc[t] = "idle"

\* C18: a peek_from changes nothing but its own result: queue, lock, pending
\* datagrams and deliveries stay as they are; it returns the datagram pending
\* on the socket (length, bytes, address) whatever the latency, or the socket's
\* error when none is pending; and it can be made while a receiver holds the
\* lock.
C18_PeekPassThrough ==
    /\ [][(ret'.kind \in {"peeked", "peekerr"} /\ ret' # ret) =>
             /\ queue' = queue
             /\ lock' = lock
             /\ inbox' = inbox
             /\ out' = out
             /\ dlv' = dlv
             /\ pc' = pc
             /\ IF inbox # <<>>
                THEN LET dg == Head(inbox)
                         n  == Min(Len(dg.data), Len(ret'.buf))
                     IN  /\ ret'.kind = "peeked"
                         /\ ret'.id = dg.id
                         /\ ret'.len = n
                         /\ ret'.addr = dg.addr
                         /\ ret'.buf = RawBuf(dg.id, n, Len(ret'.buf))
                ELSE ret'.kind = "peekerr"]_vars
    /\ []((/\ \E t \in Threads : pc[t] = "idle"
           /\ inbox # <<>> \/ nonblocking) => ENABLED Peek)

\* a peek_from returned the pending datagram while a receiver held the lock of
\* a non-empty queue on a socket with latency
C18_Witness ==
    /\ mode = "Conditioned"
    /\ config.latency > 0
    /\ lock # None
    /\ queue # <<>>
    /\ ret.kind = "peeked"
    /\ inbox # <<>>
    /\ Head(inbox).id = ret.id

====
